---------------------------- MODULE Spec2Model ----------------------------
(***************************************************************************)
(* Model of apps/desktop/src-tauri/src/lib.rs: the three tauri commands    *)
(* start_services, stop_services and check_status, which shell out to      *)
(* `docker compose`, and the tray menu that dispatches to them.            *)
(*                                                                         *)
(* Text (a Rust String) is a record [prefix, body]: prefix is the literal  *)
(* part of a format string, body the UTF-8 bytes substituted for `{}`.     *)
(***************************************************************************)
EXTENDS Naturals, Sequences, FiniteSets

VARIABLES
    running,     \* the application process is alive
    cwd,         \* the process's current working directory (path components)
    nWorkers,    \* worker threads of the async runtime the tasks are spawned on
    win,         \* the webview window labelled "main"
    event,       \* the event the dispatch thread is delivering
    tasks,       \* tasks spawned on the async runtime, in spawn order
    selections,  \* number of `start`/`stop` menu selections handled so far
    log          \* lines written to the diagnostic streams

vars == <<running, cwd, nWorkers, win, event, tasks, selections, log>>

----------------------------------------------------------------------------
(* Bounds of the model *)

\* most tasks ever spawned in one behaviour
MaxTasks == 2
\* most worker threads the host gives the async runtime (its CPU count)
MaxWorkers == 2
\* longest captured stdout / stderr in CallSpec
MaxLen == 2

\* bytes the captured streams are built from: 'A', a continuation byte,
\* a two-byte lead and a three-byte lead
ByteAlphabet == {65, 169, 195, 226}

BytesUpTo(n) == UNION {[1..k -> ByteAlphabet] : k \in 0..n}

\* longer streams: U+20AC, U+1F433, a surrogate (ED A0 80), an overlong form
\* (E0 80 80), a truncated four-byte sequence, F4 90 (beyond U+10FFFF) and
\* "A\n" followed by the byte FF
SampleStreams ==
    {<<226, 130, 172>>, <<240, 159, 144, 179>>, <<237, 160, 128>>,
     <<224, 128, 128>>, <<240, 159, 144>>, <<244, 144, 128, 128>>, <<65, 10, 255>>}

\* the captured streams of at most n bytes, and the longer ones
Streams(n) == BytesUpTo(n) \cup SampleStreams

\* Display texts of the io::Error of a failed spawn ("2": ENOENT, "13": EACCES)
SpawnErrors == {<<50>>, <<49, 51>>}

\* the one the tray specification draws
SampleErrors == {<<50>>}

ExitCodes == {0, 1, 2}

\* directories the application may be started from
Cwds ==
    {<<>>, <<"airis", "apps", "desktop">>, <<"airis", "apps", "desktop", "src-tauri">>}

----------------------------------------------------------------------------
(* Text and results *)

Str(prefix, body) == [prefix |-> prefix, body |-> body]

Ok(s) == [ok |-> TRUE, val |-> s]

Err(s) == [ok |-> FALSE, val |-> s]

\* U+FFFD REPLACEMENT CHARACTER in UTF-8
REPLACEMENT == <<239, 191, 189>>

SafeGet(v, i) == IF i <= Len(v) THEN v[i] ELSE 0

IsCont(b) == b \in 128..191

Utf8Width(b) ==
    IF b < 128 THEN 1
    ELSE IF b \in 194..223 THEN 2
    ELSE IF b \in 224..239 THEN 3
    ELSE IF b \in 240..244 THEN 4
    ELSE 0

Second3(a, b) ==
    \/ a = 224 /\ b \in 160..191
    \/ a \in 225..236 /\ b \in 128..191
    \/ a = 237 /\ b \in 128..159
    \/ a \in 238..239 /\ b \in 128..191

Second4(a, b) ==
    \/ a = 240 /\ b \in 144..191
    \/ a \in 241..243 /\ b \in 128..191
    \/ a = 244 /\ b \in 128..143

\* the chunk at the head of a non-empty v: a valid character of len bytes,
\* or an invalid sequence of len bytes
NextChunk(v) ==
    LET b == v[1]
        w == Utf8Width(b)
    IN  IF b < 128 THEN [valid |-> TRUE, len |-> 1]
        ELSE IF w = 2 THEN
            IF IsCont(SafeGet(v, 2)) THEN [valid |-> TRUE, len |-> 2]
            ELSE [valid |-> FALSE, len |-> 1]
        ELSE IF w = 3 THEN
            IF ~Second3(b, SafeGet(v, 2)) THEN [valid |-> FALSE, len |-> 1]
            ELSE IF ~IsCont(SafeGet(v, 3)) THEN [valid |-> FALSE, len |-> 2]
            ELSE [valid |-> TRUE, len |-> 3]
        ELSE IF w = 4 THEN
            IF ~Second4(b, SafeGet(v, 2)) THEN [valid |-> FALSE, len |-> 1]
            ELSE IF ~IsCont(SafeGet(v, 3)) THEN [valid |-> FALSE, len |-> 2]
            ELSE IF ~IsCont(SafeGet(v, 4)) THEN [valid |-> FALSE, len |-> 3]
            ELSE [valid |-> TRUE, len |-> 4]
        ELSE [valid |-> FALSE, len |-> 1]

RECURSIVE from_utf8_lossy(_)
from_utf8_lossy(v) ==
    IF v = <<>> THEN <<>>
    ELSE LET c == NextChunk(v)
         IN  (IF c.valid THEN SubSeq(v, 1, c.len) ELSE REPLACEMENT)
                 \o from_utf8_lossy(SubSeq(v, c.len + 1, Len(v)))

----------------------------------------------------------------------------
(* The outcome of Command::output() *)

Exited(code, out, err) ==
    [spawned |-> TRUE, err |-> <<>>, status |-> code, stdout |-> out, stderr |-> err]

SpawnFailed(e) ==
    [spawned |-> FALSE, err |-> e, status |-> 0, stdout |-> <<>>, stderr |-> <<>>]

NoOutput == SpawnFailed(<<>>)

\* every outcome of a spawned CLI over the streams of Streams(n)
Outputs(n) ==
    {Exited(c, o, e) : c \in ExitCodes, o \in Streams(n), e \in Streams(n)}

\* the outcomes the tray specification draws from
SampleOutputs == {Exited(0, <<65>>, <<>>), Exited(1, <<65>>, <<195>>)}

----------------------------------------------------------------------------
(* The commands *)

start_services_swapped(o) ==
    IF ~o.spawned THEN Err(Str("Failed to execute docker compose: ", o.err))
    ELSE IF o.status = 0 THEN Ok(Str("", from_utf8_lossy(o.stderr)))
    ELSE Err(Str("", from_utf8_lossy(o.stderr)))

start_services_bare_error(o) ==
    IF ~o.spawned THEN Err(Str("", o.err))
    ELSE IF o.status = 0 THEN Ok(Str("", from_utf8_lossy(o.stdout)))
    ELSE Err(Str("", from_utf8_lossy(o.stderr)))

start_services(o) ==
    IF ~o.spawned THEN Err(Str("Failed to execute docker compose: ", o.err))
    ELSE IF o.status = 0 THEN Ok(Str("", from_utf8_lossy(o.stdout)))
    ELSE Err(Str("", from_utf8_lossy(o.stderr)))

stop_services_ignore_status(o) ==
    IF ~o.spawned THEN Err(Str("Failed to execute docker compose: ", o.err))
    ELSE Ok(Str("", from_utf8_lossy(o.stdout)))

stop_services(o) ==
    IF ~o.spawned THEN Err(Str("Failed to execute docker compose: ", o.err))
    ELSE IF o.status = 0 THEN Ok(Str("", from_utf8_lossy(o.stdout)))
    ELSE Err(Str("", from_utf8_lossy(o.stderr)))

check_status_checked(o) ==
    IF ~o.spawned THEN Err(Str("Failed to check status: ", o.err))
    ELSE IF o.status = 0 THEN Ok(Str("", from_utf8_lossy(o.stdout)))
    ELSE Err(Str("", from_utf8_lossy(o.stderr)))

check_status(o) ==
    IF ~o.spawned THEN Err(Str("Failed to check status: ", o.err))
    ELSE Ok(Str("", from_utf8_lossy(o.stdout)))

Commands == {"start_services", "stop_services", "check_status"}

Call(op, o) ==
    CASE op = "start_services" -> start_services(o)
      [] op = "stop_services" -> stop_services(o)
      [] op = "check_status" -> check_status(o)

Args(op) ==
    CASE op = "start_services" -> <<"compose", "up", "-d">>
      [] op = "stop_services" -> <<"compose", "down">>
      [] op = "check_status" -> <<"compose", "ps">>

\* the directory `rel` names for a process whose working directory is `dir`
RECURSIVE Resolve(_, _)
Resolve(dir, rel) ==
    IF rel = <<>> THEN dir
    ELSE IF Head(rel) = ".." THEN
        Resolve(IF dir = <<>> THEN dir ELSE SubSeq(dir, 1, Len(dir) - 1), Tail(rel))
    ELSE Resolve(Append(dir, Head(rel)), Tail(rel))

\* Command::new("docker").args(..).current_dir("../../")
Command(op, dir) ==
    [program |-> "docker", args |-> Args(op), dir |-> Resolve(dir, <<"..", "..">>)]

NoCommand == [program |-> "", args |-> <<>>, dir |-> <<>>]

----------------------------------------------------------------------------
(* The tray *)

MenuIds == {"quit", "show", "start", "stop", "about"}

MenuEvents ==
    {[phase |-> "handled", kind |-> "menu", id |-> i, button |-> "", state |-> ""] :
        i \in MenuIds}

\* TrayIconEvent::Click with its button and button state
TrayEvents ==
    {[phase |-> "handled", kind |-> "tray", id |-> "Click", button |-> b, state |-> s] :
        <<b, s>> \in {<<"Left", "Up">>, <<"Left", "Down">>, <<"Right", "Up">>}}

Idle == [phase |-> "idle", kind |-> "", id |-> "", button |-> "", state |-> ""]

MenuTask_show_starts(id) ==
    CASE id = "start" -> "start_services"
      [] id = "stop" -> "stop_services"
      [] id = "show" -> "start_services"
      [] OTHER -> "none"

\* the command a menu identifier spawns
MenuTask(id) ==
    CASE id = "start" -> "start_services"
      [] id = "stop" -> "stop_services"
      [] OTHER -> "none"

exit_ignored(code) == TRUE

\* app.exit(0): whether the process is still running afterwards
exit(code) == FALSE

ShowMainWindow_creates(w) == [exists |-> TRUE, visible |-> TRUE, focused |-> TRUE]

\* if let Some(window) = app.get_webview_window("main") { show; set_focus }
ShowMainWindow(w) ==
    IF w.exists THEN [exists |-> TRUE, visible |-> TRUE, focused |-> TRUE] ELSE w

LogLine_always_success(t, op, r) ==
    [task |-> t, stream |-> "stdout",
     text |-> Str(IF op = "start_services" THEN "Services started successfully"
                  ELSE "Services stopped successfully", <<>>)]

\* the match on the command's result inside the spawned task
LogLine(t, op, r) ==
    IF r.ok THEN
        [task |-> t, stream |-> "stdout",
         text |-> Str(IF op = "start_services" THEN "Services started successfully"
                      ELSE "Services stopped successfully", <<>>)]
    ELSE
        [task |-> t, stream |-> "stderr",
         text |-> Str((IF op = "start_services" THEN "Failed to start services: "
                       ELSE "Failed to stop services: ") \o r.val.prefix, r.val.body)]

NewTask(op, origin) ==
    [op |-> op, origin |-> origin, st |-> "queued", launches |-> 0,
     cmd |-> NoCommand, output |-> NoOutput, result |-> Err(Str("", <<>>))]

\* tauri::async_runtime::spawn
Spawn(q, op, origin) == Append(q, NewTask(op, origin))

\* worker threads held by a task that is inside Command::output()
Busy == Cardinality({t \in 1..Len(tasks) : tasks[t].st \in {"waiting", "exited"}})

----------------------------------------------------------------------------
(* Initial states *)

Windows ==
    {[exists |-> FALSE, visible |-> FALSE, focused |-> FALSE],
     [exists |-> TRUE, visible |-> FALSE, focused |-> FALSE]}

Init ==
    /\ running = TRUE
    /\ cwd = <<"airis", "apps", "desktop">>
    /\ nWorkers \in 1..MaxWorkers
    /\ win \in Windows
    /\ event = Idle
    /\ tasks = <<>>
    /\ selections = 0
    /\ log = <<>>

InitCall ==
    /\ running = TRUE
    /\ cwd \in Cwds
    /\ nWorkers = 1
    /\ win = [exists |-> TRUE, visible |-> TRUE, focused |-> TRUE]
    /\ event = Idle
    /\ tasks = <<>>
    /\ selections = 0
    /\ log = <<>>

----------------------------------------------------------------------------
(* The dispatch thread *)

MenuQuit(id) ==
    /\ id = "quit"
    /\ running' = exit(0)
    /\ UNCHANGED <<win, selections>>

MenuShow(id) ==
    /\ id = "show"
    /\ win' = ShowMainWindow(win)
    /\ UNCHANGED <<running, selections>>

MenuStartStop(id) ==
    /\ id \in {"start", "stop"}
    /\ selections' = selections + 1
    /\ UNCHANGED <<running, win>>

MenuOther(id) ==
    /\ id \notin {"quit", "show", "start", "stop"}
    /\ UNCHANGED <<running, win, selections>>

\* the user selects a menu item: the match of on_menu_event runs on the
\* dispatch thread; the arm of an identifier that names a command spawns it
on_menu_event(e) ==
    /\ running
    /\ event.phase = "idle"
    /\ MenuTask(e.id) # "none" => Len(tasks) < MaxTasks
    /\ \/ MenuQuit(e.id)
       \/ MenuShow(e.id)
       \/ MenuStartStop(e.id)
       \/ MenuOther(e.id)
    /\ tasks' = IF MenuTask(e.id) = "none" THEN tasks
                ELSE Spawn(tasks, MenuTask(e.id), "tray")
    /\ event' = e
    /\ UNCHANGED <<cwd, nWorkers, log>>

\* the user acts on the tray icon
on_tray_icon_event(e) ==
    /\ running
    /\ event.phase = "idle"
    /\ IF e.id = "Click" /\ e.button = "Left" /\ e.state = "Up"
       THEN win' = ShowMainWindow(win)
       ELSE win' = win
    /\ event' = e
    /\ UNCHANGED <<running, cwd, nWorkers, tasks, selections, log>>

\* the handler has returned to the event loop
Return ==
    /\ running
    /\ event.phase = "handled"
    /\ event' = Idle
    /\ UNCHANGED <<running, cwd, nWorkers, win, tasks, selections, log>>

----------------------------------------------------------------------------
(* The webview and the async runtime *)

\* the webview invokes a command registered with invoke_handler
Invoke(op) ==
    /\ running
    /\ win.exists
    /\ Len(tasks) < MaxTasks
    /\ tasks' = Spawn(tasks, op, "invoke")
    /\ UNCHANGED <<running, cwd, nWorkers, win, event, selections, log>>

\* a free worker polls the task: Command::output() spawns the CLI and blocks
LaunchOk(t) ==
    /\ running
    /\ tasks[t].st = "queued"
    /\ Busy < nWorkers
    /\ tasks' = [tasks EXCEPT ![t].st = "waiting",
                              ![t].launches = @ + 1,
                              ![t].cmd = Command(tasks[t].op, cwd)]
    /\ UNCHANGED <<running, cwd, nWorkers, win, event, selections, log>>

\* the result a task ends with and, for a task of the tray, its log line
Finish(q, t, o) ==
    LET r == Call(q[t].op, o)
    IN  /\ tasks' = [q EXCEPT ![t].st = "done", ![t].output = o, ![t].result = r]
        /\ log' = IF q[t].origin = "tray"
                  THEN Append(log, LogLine(t, q[t].op, r))
                  ELSE log

\* a free worker polls the task and Command::output() fails to spawn the CLI
LaunchFail(t, errs) ==
    /\ running
    /\ tasks[t].st = "queued"
    /\ Busy < nWorkers
    /\ \E e \in errs : Finish([tasks EXCEPT ![t].launches = @ + 1,
                            ![t].cmd = Command(tasks[t].op, cwd)], t, SpawnFailed(e))
    /\ UNCHANGED <<running, cwd, nWorkers, win, event, selections>>

\* the CLI subprocess terminates; its streams and status are captured
ProcExit(t, outs) ==
    /\ running
    /\ tasks[t].st = "waiting"
    /\ \E o \in outs : tasks' = [tasks EXCEPT ![t].st = "exited", ![t].output = o]
    /\ UNCHANGED <<running, cwd, nWorkers, win, event, selections, log>>

\* Command::output() returns and the task runs to its end
Complete(t) ==
    /\ running
    /\ tasks[t].st = "exited"
    /\ Finish(tasks, t, tasks[t].output)
    /\ UNCHANGED <<running, cwd, nWorkers, win, event, selections>>

----------------------------------------------------------------------------
(* Specifications *)

\* the application with its tray and the runtime's workers; the webview
\* queries the status (CallSpec invokes every command)
Next ==
    \/ \E e \in MenuEvents : on_menu_event(e)
    \/ \E e \in TrayEvents : on_tray_icon_event(e)
    \/ Return
    \/ Invoke("check_status")
    \/ \E t \in 1..Len(tasks) : LaunchOk(t)
    \/ \E t \in 1..Len(tasks) : LaunchFail(t, SampleErrors)
    \/ \E t \in 1..Len(tasks) : ProcExit(t, SampleOutputs)
    \/ \E t \in 1..Len(tasks) : Complete(t)

Spec == Init /\ [][Next]_vars

\* a worker thread that can run is scheduled
FairSpec == Spec /\ \A t \in 1..MaxTasks : WF_vars(t <= Len(tasks) /\ Complete(t))

\* one command invoked once, over every outcome of the CLI
NextCall ==
    \/ \E op \in Commands : tasks = <<>> /\ Invoke(op)
    \/ \E t \in 1..Len(tasks) : LaunchOk(t)
    \/ \E t \in 1..Len(tasks) : LaunchFail(t, SpawnErrors)
    \/ \E t \in 1..Len(tasks) : ProcExit(t, Outputs(MaxLen))
    \/ \E t \in 1..Len(tasks) : Complete(t)

CallSpec == InitCall /\ [][NextCall]_vars

----------------------------------------------------------------------------
(* Vocabulary of the properties *)

Tasks == 1..Len(tasks)

\* the task has run to its end after the CLI was spawned and exited
Ran(t) == tasks[t].st = "done" /\ tasks[t].output.spawned

\* the task has run to its end because the CLI could not be spawned
NotSpawned(t) == tasks[t].st = "done" /\ ~tasks[t].output.spawned

\* a well-formed UTF-8 byte sequence of one character (Unicode, table 3-7)
WellFormedUnit(u) ==
    \/ Len(u) = 1 /\ u[1] \in 0..127
    \/ Len(u) = 2 /\ u[1] \in 194..223 /\ u[2] \in 128..191
    \/ /\ Len(u) = 3
       /\ \/ u[1] = 224 /\ u[2] \in 160..191
          \/ u[1] \in (225..236) \cup (238..239) /\ u[2] \in 128..191
          \/ u[1] = 237 /\ u[2] \in 128..159
       /\ u[3] \in 128..191
    \/ /\ Len(u) = 4
       /\ \/ u[1] = 240 /\ u[2] \in 144..191
          \/ u[1] \in 241..243 /\ u[2] \in 128..191
          \/ u[1] = 244 /\ u[2] \in 128..143
       /\ u[3] \in 128..191
       /\ u[4] \in 128..191

RECURSIVE IsUtf8(_)
IsUtf8(v) ==
    \/ v = <<>>
    \/ \E n \in 1..4 :
        /\ n <= Len(v)
        /\ WellFormedUnit(SubSeq(v, 1, n))
        /\ IsUtf8(SubSeq(v, n + 1, Len(v)))

\* the bytes v holds U+FFFD somewhere
HasReplacement(v) ==
    \E i \in 1..Len(v) : i + 2 <= Len(v) /\ SubSeq(v, i, i + 2) = <<239, 191, 189>>

\* a `show` selection or a left-button release on the tray icon
IsShow(e) ==
    \/ e.kind = "menu" /\ e.id = "show"
    \/ e.kind = "tray" /\ e.id = "Click" /\ e.button = "Left" /\ e.state = "Up"

QuitSelected == event.phase = "handled" /\ event.kind = "menu" /\ event.id = "quit"

\* the project root the CLI is meant to run in
ProjectRoot == <<"airis">>

TrayTasks == {t \in Tasks : tasks[t].origin = "tray"}

\* worker threads blocked on the CLI subprocess of a Start or Stop selection
\* that has not exited
Blocked == Cardinality({t \in TrayTasks : tasks[t].st = "waiting"})

----------------------------------------------------------------------------
(* Properties *)

\* C1 as stated: whenever the CLI exits 0, each command returns Ok with a
\* payload equal to the captured stdout bytes, for every byte sequence.
C1_Original ==
    \A t \in Tasks :
        Ran(t) /\ tasks[t].output.status = 0 =>
            tasks[t].result = Ok(Str("", tasks[t].output.stdout))

\* C1 amended: whenever the CLI exits 0, each command returns Ok with the
\* lossy UTF-8 decoding of stdout and nothing added: the stdout bytes
\* themselves when they are valid UTF-8, otherwise a valid UTF-8 text that
\* differs from them and holds U+FFFD.
C1_LossyStdout ==
    \A t \in Tasks :
        Ran(t) /\ tasks[t].output.status = 0 =>
            LET out == tasks[t].output.stdout
                r == tasks[t].result
            IN  /\ r.ok
                /\ r.val.prefix = ""
                /\ r.val.body = from_utf8_lossy(out)
                /\ IsUtf8(r.val.body)
                /\ IsUtf8(out) => r.val.body = out
                /\ ~IsUtf8(out) => r.val.body # out /\ HasReplacement(r.val.body)

C1_Witness ==
    \E t \in Tasks :
        /\ Ran(t)
        /\ tasks[t].output.status = 0
        /\ tasks[t].op = "start_services"
        /\ ~IsUtf8(tasks[t].output.stdout)
        /\ tasks[t].output.stdout # tasks[t].output.stderr
        /\ tasks[t].result.ok

\* C2 as stated: whenever the CLI exits non-zero, start_services and
\* stop_services return Err with a message equal to the captured stderr bytes.
C2_Original ==
    \A t \in Tasks :
        /\ Ran(t)
        /\ tasks[t].output.status # 0
        /\ tasks[t].op \in {"start_services", "stop_services"}
        => tasks[t].result = Err(Str("", tasks[t].output.stderr))

\* C2 amended: whenever the CLI exits non-zero, start_services and
\* stop_services return Err, never Ok, with the lossy UTF-8 decoding of
\* stderr (the stderr bytes themselves when they are valid UTF-8); the
\* captured stdout is no part of the result.
C2_LossyStderr ==
    \A t \in Tasks :
        /\ Ran(t)
        /\ tasks[t].output.status # 0
        /\ tasks[t].op \in {"start_services", "stop_services"}
        => LET err == tasks[t].output.stderr
               r == tasks[t].result
           IN  /\ ~r.ok
               /\ r.val.prefix = ""
               /\ r.val.body = from_utf8_lossy(err)
               /\ IsUtf8(r.val.body)
               /\ IsUtf8(err) => r.val.body = err
               /\ ~IsUtf8(err) => r.val.body # err /\ HasReplacement(r.val.body)

C2_Witness ==
    \E t \in Tasks :
        /\ Ran(t)
        /\ tasks[t].output.status # 0
        /\ tasks[t].op = "stop_services"
        /\ tasks[t].output.stdout # <<>>
        /\ tasks[t].output.stdout # tasks[t].output.stderr
        /\ ~tasks[t].result.ok
        /\ tasks[t].result.val.body = tasks[t].output.stderr

\* C3 as stated: check_status returns Ok for every outcome of the CLI
\* invocation, also when the executable cannot be spawned.
C3_Original ==
    \A t \in Tasks :
        tasks[t].st = "done" /\ tasks[t].op = "check_status" => tasks[t].result.ok

\* C3 amended: whenever the CLI is spawned, check_status returns Ok with the
\* lossy UTF-8 decoding of stdout for every exit code; when the CLI cannot be
\* spawned it returns Err with "Failed to check status: " and the OS error.
C3_StatusIgnoresExitCode ==
    \A t \in Tasks :
        tasks[t].st = "done" /\ tasks[t].op = "check_status" =>
            LET o == tasks[t].output
                r == tasks[t].result
            IN  /\ o.spawned =>
                    /\ r.ok
                    /\ r.val.prefix = ""
                    /\ r.val.body = from_utf8_lossy(o.stdout)
                    /\ IsUtf8(o.stdout) => r.val.body = o.stdout
                /\ ~o.spawned =>
                    /\ ~r.ok
                    /\ r.val.prefix = "Failed to check status: "
                    /\ r.val.body = o.err

C3_Witness ==
    \E t \in Tasks :
        /\ Ran(t)
        /\ tasks[t].op = "check_status"
        /\ tasks[t].output.status # 0
        /\ tasks[t].output.stdout # <<>>
        /\ tasks[t].result = Ok(Str("", tasks[t].output.stdout))

\* C4 as stated: when the CLI cannot be spawned, start_services and
\* stop_services return the captured stderr as the error message, as they
\* do for a non-zero exit.
C4_Original ==
    \A t \in Tasks :
        NotSpawned(t) /\ tasks[t].op \in {"start_services", "stop_services"} =>
            tasks[t].result = Err(Str("", from_utf8_lossy(tasks[t].output.stderr)))

\* C4 amended: when the CLI cannot be spawned, start_services and
\* stop_services return Err with "Failed to execute docker compose: "
\* followed by the OS error (no stderr was captured); like a non-zero exit
\* the failure is an Err value, and the process keeps running.
C4_SpawnFailureMessage ==
    \A t \in Tasks :
        tasks[t].st = "done" /\ tasks[t].op \in {"start_services", "stop_services"} =>
            LET o == tasks[t].output
                r == tasks[t].result
            IN  /\ running
                /\ ~o.spawned =>
                    /\ ~r.ok
                    /\ r.val.prefix = "Failed to execute docker compose: "
                    /\ r.val.body = o.err
                /\ o.spawned /\ o.status # 0 => ~r.ok /\ r.val.prefix = ""

C4_Witness ==
    \E t \in Tasks :
        /\ NotSpawned(t)
        /\ tasks[t].op = "start_services"
        /\ tasks[t].launches = 1
        /\ ~tasks[t].result.ok
        /\ running

\* C5: a Start or Stop selection never blocks the dispatch thread, and no
\* invocation waits for the subprocess of another: a task that has not
\* launched its CLI yet finds a worker that is not blocked on a subprocess.
C5_Original ==
    /\ running /\ event.phase = "handled" => ENABLED Return
    /\ \A t \in TrayTasks : tasks[t].st = "queued" => Blocked < nWorkers

\* C6: with no window "main", a `show` selection or a left-button release on
\* the tray icon changes nothing but the event being delivered: no task is
\* spawned, no CLI launched, no window created, the process keeps running.
C6_ShowWithoutWindowIsNoOp ==
    [][(/\ event.phase = "idle"
        /\ event'.phase = "handled"
        /\ IsShow(event')
        /\ ~win.exists)
       => /\ running'
          /\ UNCHANGED <<running, cwd, nWorkers, win, tasks, selections, log>>]_vars

C6_Witness ==
    /\ event.phase = "handled"
    /\ IsShow(event)
    /\ ~win.exists
    /\ running

\* C7: once `quit` has been handled nothing is handled any more: no event is
\* dispatched, no task spawned, no window shown, and the tasks in flight
\* stay where they are.
C7_QuitHalts ==
    [][QuitSelected => ~running /\ UNCHANGED vars]_vars

C7_Witness ==
    /\ QuitSelected
    /\ ~running
    /\ \E t \in Tasks : tasks[t].st \in {"queued", "waiting", "exited"}

\* C8: every CLI invocation runs in the project root, whatever the process's
\* current working directory.
C8_Original ==
    \A t \in Tasks : tasks[t].launches > 0 => tasks[t].cmd.dir = ProjectRoot

\* C9 as stated, at the end of a run: when the application has quit, the CLI
\* launches made for the tray are as many as the `start` and `stop`
\* selections dispatched.
C9_Original ==
    ~running =>
        Cardinality({t \in TrayTasks : tasks[t].launches > 0}) = selections

\* C9 amended: every dispatched `start` or `stop` selection spawns exactly one
\* task and nothing else spawns one for the tray; a task launches the CLI at
\* most once, when a worker first polls it, as `docker` with exactly the
\* arguments of its command, and never again after a failure. The launches
\* made for the tray are the selections less the tasks no worker has polled.
C9_OneLaunchPerCall ==
    /\ Cardinality(TrayTasks) = selections
    /\ Cardinality({t \in TrayTasks : tasks[t].launches = 1})
         + Cardinality({t \in TrayTasks : tasks[t].st = "queued"}) = selections
    /\ \A t \in TrayTasks : tasks[t].op \in {"start_services", "stop_services"}
    /\ \A t \in Tasks :
        /\ tasks[t].launches <= 1
        /\ tasks[t].launches = 1 <=> tasks[t].st # "queued"
        /\ tasks[t].launches = 1 =>
            /\ tasks[t].cmd.program = "docker"
            /\ tasks[t].op = "start_services" => tasks[t].cmd.args = <<"compose", "up", "-d">>
            /\ tasks[t].op = "stop_services" => tasks[t].cmd.args = <<"compose", "down">>
            /\ tasks[t].op = "check_status" => tasks[t].cmd.args = <<"compose", "ps">>

C9_Witness ==
    /\ selections >= 1
    /\ event.phase = "handled" /\ event.kind = "menu" /\ event.id = "show"
    /\ \E t \in TrayTasks :
        /\ tasks[t].st = "done"
        /\ ~tasks[t].result.ok
        /\ tasks[t].launches = 1
    /\ \E t \in Tasks : tasks[t].op = "check_status" /\ tasks[t].launches = 1

\* the line a finished task of the tray must have written
ExpectedLine(t) ==
    LET r == tasks[t].result
        start == tasks[t].op = "start_services"
    IN  IF r.ok
        THEN [task |-> t, stream |-> "stdout",
              text |-> Str(IF start THEN "Services started successfully"
                           ELSE "Services stopped successfully", <<>>)]
        ELSE [task |-> t, stream |-> "stderr",
              text |-> Str((IF start THEN "Failed to start services: "
                            ELSE "Failed to stop services: ") \o r.val.prefix,
                           r.val.body)]

LogMatchesResults ==
    /\ \A t \in TrayTasks :
        Cardinality({i \in 1..Len(log) : log[i].task = t})
            = IF tasks[t].st = "done" THEN 1 ELSE 0
    /\ \A i \in 1..Len(log) :
        /\ log[i].task \in TrayTasks
        /\ log[i] = ExpectedLine(log[i].task)

\* C10: a task of the tray whose CLI has terminated or failed to spawn writes
\* exactly one log line, eventually unless the application quits: the success
\* line if and only if its command returned Ok, otherwise the failure line
\* with the command's error text; writing it changes no window and leaves
\* the dispatcher as it was.
C10_LogAndContinue ==
    /\ []LogMatchesResults
    /\ [][Len(log') # Len(log) => UNCHANGED <<running, win, event, selections>>]_vars
    /\ \A t \in 1..MaxTasks :
        (t \in TrayTasks /\ tasks[t].st = "exited")
            ~> (~running \/ (t \in TrayTasks /\ tasks[t].st = "done"))

C10_Witness ==
    /\ running
    /\ \E t \in TrayTasks : \E i \in 1..Len(log) :
        /\ tasks[t].st = "done"
        /\ tasks[t].output.spawned
        /\ ~tasks[t].result.ok
        /\ log[i].task = t
        /\ log[i].stream = "stderr"
    /\ \E t \in TrayTasks : \E i \in 1..Len(log) :
        /\ tasks[t].result.ok
        /\ log[i].task = t
        /\ log[i].stream = "stdout"

============================================================================
